---- MODULE Spec2Model ----
(***************************************************************************)
(* Model of platform_hierarchy_v1.py: the access-token acquisition and     *)
(* caching (get_access_token), the request dispatcher (make_api_call),     *)
(* the hierarchy node operations built on it and the response extraction   *)
(* helpers.                                                                *)
(*                                                                         *)
(* Python values are represented as follows.  None is the empty tuple and  *)
(* a present value v is the one-element tuple <<v>>; a dict is a function  *)
(* whose domain is the set of keys present; a list is a sequence; an       *)
(* exception is a record [kind |-> "raise", error |-> .., ..].  Where one  *)
(* position can hold values of several Python types, each type has its    *)
(* own record field (Dict, List, ReturnNode, ReturnId, ...).               *)
(* The authentication endpoint declares a positive expires_in.             *)
(***************************************************************************)
EXTENDS Integers, Sequences, FiniteSets, TLC

\* Largest expires_in (in clock ticks) the authentication endpoint declares.
MaxTTL == 2
\* Longest "value" array of an envelope given to the extraction helpers.
MaxLen == 3

None == <<>>
Some(v) == <<v>>
EmptyDict == <<>>

\* dict.get(key): the value, or None when the key is missing
DictGet(d, k) == IF k \in DOMAIN d THEN Some(d[k]) ELSE None

\* str() as applied by an f-string replacement field
Str(o) == IF o = None THEN "None" ELSE o[1]

\* variant: the two parts joined without the space
FormatToken_NoSpace(token_type, access_token) == Str(token_type) \o Str(access_token)

\* f"{token_type} {access_token}"
FormatToken(token_type, access_token) == Str(token_type) \o " " \o Str(access_token)

\* variant: the cached token is never taken to be present
Truthy_Never(o) == FALSE

\* truth value of a str-or-None, as tested by `if token:`
Truthy(o) == o # None /\ o[1] # ""

LOCAL_HIERARCHY_URL == [origin |-> "https://platform-hierarchy-service.localhost.net", path |-> <<>>]
ORG_ID == "3fa85f64-5717-4562-b3fc-2c963f66afa6"
HIERARCHY_TYPE == "location"

\* urljoin(base, uri) for a uri that is an absolute path ("/..."): the path
\* replaces the path of the base.  A path is kept as its sequence of segments.
UrlJoin(base, uri) == [origin |-> base.origin, path |-> uri]

\* a dict and a list, as values of one position
Dict(d) == [dict |-> d]
List(l) == [list |-> l]
\* json.dumps: the serialised text of a value
JsonDumps(v) == [json |-> v]

(***************************************************************************)
(* The collaborators: the responses they can give.                         *)
(***************************************************************************)
StatusCodes == {200, 401, 500}

\* variant: only 5xx raises
RaisesForStatus_ServerOnly(status) == 500 <= status /\ status < 600

\* Response.raise_for_status raises HTTPError for 4xx and 5xx
RaisesForStatus(status) == 400 <= status /\ status < 600
\* Response.ok
Ok(status) == ~RaisesForStatus(status)

HTTPError(status) == [kind |-> "raise", error |-> "HTTPError", status |-> status]
Return(v) == [kind |-> "return", value |-> v]
\* make_api_call returning the response of the hierarchy service
Response(status) == [kind |-> "return", response |-> [status_code |-> status, ok |-> Ok(status)]]

TokenTypes == {"Bearer"}
AccessTokens == {"a", "b"}
ExpiresIn == 1..MaxTTL

Opt(S) == {None} \cup {Some(v) : v \in S}
Field(k, o) == IF o = None THEN EmptyDict ELSE (k :> o[1])
TokenBody(tt, at, ex) == Field("token_type", tt) @@ Field("access_token", at) @@ Field("expires_in", ex)

\* JSON bodies of a successful token response: every complete body, and one
\* response with each set of its fields missing
TokenBodies == {TokenBody(Some(tt), Some(at), Some(ex)) : tt \in TokenTypes, at \in AccessTokens, ex \in ExpiresIn}
                 \cup {TokenBody(tt, at, ex) : tt \in Opt({"Bearer"}), at \in Opt({"a"}), ex \in Opt({1})}

AuthResponses == {[status |-> 200, body |-> b] : b \in TokenBodies}
                   \cup {[status |-> s, body |-> EmptyDict] : s \in {401, 500}}

NodeIds == {"n1", "n2"}

(***************************************************************************)
(* The token cache (django.core.cache): one key, "access_token".           *)
(* Empty is None, an entry is Some([val, ttl]), ttl None = never expires.  *)
(***************************************************************************)
CacheGet(c) == IF c = None THEN None ELSE Some(c[1].val)

\* variant: set stores nothing
CacheSet_Keep(c, v, timeout) == c

CacheSet(c, v, timeout) == Some([val |-> v, ttl |-> timeout])

\* variant: get_access_token without response.raise_for_status()
GetAccessToken_NoRaise(c, resp) ==
    LET token == CacheGet(c) IN
    IF Truthy(token)
    THEN [cache |-> c, posts |-> 0, issued |-> None, outcome |-> Return(token)]
    ELSE IF Ok(resp.status)
    THEN LET token_type == DictGet(resp.body, "token_type")
             access_token == DictGet(resp.body, "access_token")
             expiry == DictGet(resp.body, "expires_in")
         IN [cache |-> CacheSet(c, FormatToken(token_type, access_token), expiry),
             posts |-> 1, issued |-> Some(resp),
             outcome |-> Return(Some(FormatToken(token_type, access_token)))]
    ELSE [cache |-> c, posts |-> 1, issued |-> Some(resp), outcome |-> Return(None)]

(***************************************************************************)
(* get_access_token, given the cache and the response the authentication   *)
(* endpoint would give to a POST.  Yields the new cache, the number of     *)
(* POSTs made and the outcome (value returned or exception raised).        *)
(***************************************************************************)
GetAccessToken(c, resp) ==
    LET token == CacheGet(c) IN
    IF Truthy(token)
    THEN [cache |-> c, posts |-> 0, issued |-> None, outcome |-> Return(token)]
    ELSE IF RaisesForStatus(resp.status)
    THEN [cache |-> c, posts |-> 1, issued |-> Some(resp), outcome |-> HTTPError(resp.status)]
    ELSE IF Ok(resp.status)
    THEN LET token_type == DictGet(resp.body, "token_type")
             access_token == DictGet(resp.body, "access_token")
             expiry == DictGet(resp.body, "expires_in")
         IN [cache |-> CacheSet(c, FormatToken(token_type, access_token), expiry),
             posts |-> 1, issued |-> Some(resp),
             outcome |-> Return(Some(FormatToken(token_type, access_token)))]
    ELSE [cache |-> c, posts |-> 1, issued |-> Some(resp), outcome |-> Return(None)]

(***************************************************************************)
(* make_api_call, given the cache, the response of the authentication      *)
(* endpoint and the status the hierarchy service answers with.             *)
(***************************************************************************)
\* variant: the token is left out of the headers
Headers_NoToken(token) == [Authorization |-> None, ContentType |-> "application/json", accept |-> "application/json"]

Headers(token) == [Authorization |-> token, ContentType |-> "application/json", accept |-> "application/json"]

MakeApiCall(method, uri, payload, uri_params, c, authResp, hierStatus) ==
    LET t == GetAccessToken(c, authResp) IN
    IF t.outcome.kind = "raise"
    THEN [cache |-> t.cache, auth |-> t, reqs |-> <<>>, answers |-> <<>>, outcome |-> t.outcome]
    ELSE LET request == [method |-> method, url |-> UrlJoin(LOCAL_HIERARCHY_URL, uri),
                         params |-> uri_params, data |-> payload,
                         headers |-> Headers(t.outcome.value)]
         IN [cache |-> t.cache, auth |-> t, reqs |-> <<request>>, answers |-> <<hierStatus>>,
             outcome |-> IF RaisesForStatus(hierStatus) THEN HTTPError(hierStatus)
                         ELSE Response(hierStatus)]

(***************************************************************************)
(* State.                                                                  *)
(***************************************************************************)
VARIABLES
    cache,      \* the token cache
    archived,   \* hierarchy service: Archived flag of each node
    expired,    \* history: the cache evicted its entry since the last call
    last,       \* history: the last call (operation, requests, outcome)
    pc,         \* concurrent callers of get_access_token: position of each
    issued,     \* concurrent callers: the response the POST of each received
    result,     \* concurrent callers: the outcome of each
    envelope,   \* extraction helpers: the envelope given
    helper,     \* extraction helpers: the helper applied, "none" before
    extracted   \* extraction helpers: its outcome

vars == <<cache, archived, expired, last, pc, issued, result, envelope, helper, extracted>>
callerVars == <<pc, issued, result>>
helperVars == <<envelope, helper, extracted>>

Callers == {1, 2}

NoCall == [op |-> "none"]

Init ==
    /\ cache = None
    /\ archived = [n \in NodeIds |-> FALSE]
    /\ expired = FALSE
    /\ last = NoCall
    /\ pc = [c \in Callers |-> "idle"]
    /\ issued = [c \in Callers |-> None]
    /\ result = [c \in Callers |-> None]
    /\ envelope = EmptyDict
    /\ helper = "none"
    /\ extracted = None

\* the hierarchy service: a successful PATCH applies each replace of /Archived
\* to the node the path addresses
ServiceApply(arch, reqs, answers) ==
    IF Len(reqs) = 0 \/ RaisesForStatus(answers[Len(answers)]) THEN arch
    ELSE LET rq == reqs[Len(reqs)]
             id == rq.url.path[Len(rq.url.path)]
         IN IF rq.method = "PATCH" /\ id \in NodeIds
            THEN LET ops == rq.data.json.list
                 IN IF \E i \in 1..Len(ops) : ops[i].op = "replace" /\ ops[i].path = "/Archived"
                    THEN [arch EXCEPT ![id] =
                            ops[CHOOSE i \in 1..Len(ops) :
                                   /\ ops[i].op = "replace" /\ ops[i].path = "/Archived"
                                   /\ \A j \in (i+1)..Len(ops) :
                                         ~(ops[j].op = "replace" /\ ops[j].path = "/Archived")].value]
                    ELSE arch
            ELSE arch

\* the responses the authentication endpoint can give to the POST of a call;
\* on a cache hit no POST is made and the response is immaterial
AuthAnswers(c) == IF Truthy(CacheGet(c)) THEN {[status |-> 200, body |-> EmptyDict]} ELSE AuthResponses

\* one call of a node operation, which is one call of make_api_call
NodeOp(op, arg, method, uri, payload, uri_params) ==
    \E authResp \in AuthAnswers(cache), hierStatus \in StatusCodes :
        LET r == MakeApiCall(method, uri, payload, uri_params, cache, authResp, hierStatus) IN
        /\ cache' = r.cache
        /\ archived' = ServiceApply(archived, r.reqs, r.answers)
        /\ last' = [op |-> op, arg |-> arg, auth |-> r.auth, reqs |-> r.reqs,
                    answers |-> r.answers, outcome |-> r.outcome,
                    expiredBefore |-> expired]
        /\ expired' = FALSE
        /\ UNCHANGED <<callerVars, helperVars>>

\* a caller calls get_access_token directly
CallGetAccessToken ==
    \E authResp \in AuthAnswers(cache) :
        LET t == GetAccessToken(cache, authResp) IN
        /\ cache' = t.cache
        /\ last' = [op |-> "get_access_token", arg |-> None, auth |-> t, reqs |-> <<>>,
                    answers |-> <<>>, outcome |-> t.outcome,
                    expiredBefore |-> expired]
        /\ expired' = FALSE
        /\ UNCHANGED <<callerVars, helperVars>>
        /\ UNCHANGED <<archived, callerVars, helperVars>>

NodesUri == <<"v1", "organisation", ORG_ID, "hierarchy", HIERARCHY_TYPE, "nodes">>

insert_root_companyunit_node ==
    NodeOp("insert_root", None, "PUT",
           <<"v1", "organisation", ORG_ID, "hierarchy", HIERARCHY_TYPE>>,
           JsonDumps(Dict([shortCode |-> "root", name |-> "Top Company",
                           archived |-> FALSE, nodeType |-> "company"])),
           EmptyDict)

insert_company_unit_division_node ==
    LET shortCode == "edinburgh" IN
    NodeOp("insert_division", None, "PUT", Append(NodesUri, shortCode),
           JsonDumps(Dict([name |-> "Edinburgh", parentShortCode |-> "root",
                           parentId |-> "40c46fec-206e-426b-8c6c-199925c44441",
                           archived |-> FALSE, nodeType |-> "division"])),
           EmptyDict)

insert_company_unit_site_node ==
    LET shortCode == "eedinburgh-office" IN
    NodeOp("insert_site", None, "PUT", Append(NodesUri, shortCode),
           JsonDumps(Dict([name |-> "Edinburgh Office", parentShortCode |-> "edinburgh",
                           parentId |-> "caa8aae2-ab54-4f0d-a580-28e1ce49cc60",
                           archived |-> FALSE, nodeType |-> "site"])),
           EmptyDict)

Filter(f) == "$filter" :> f

get_root_companyunit_node ==
    NodeOp("get_root", None, "GET", NodesUri, Dict(EmptyDict), Filter("ShortCode eq 'root'"))

get_company_unit_node ==
    \E nodeId \in NodeIds :
        NodeOp("get_node", Some(nodeId), "GET", Append(NodesUri, nodeId), Dict(EmptyDict), EmptyDict)

get_divisions_company_unit_nodes ==
    NodeOp("get_divisions", None, "GET", NodesUri, Dict(EmptyDict), Filter("NodeType eq 'division'"))

get_sites_company_unit_nodes ==
    NodeOp("get_sites", None, "GET", NodesUri, Dict(EmptyDict), Filter("NodeType eq 'site'"))

get_company_unit_nodes ==
    NodeOp("get_nodes", None, "GET", NodesUri, Dict(EmptyDict), Filter("ShortCode ne 'root'"))

\* variant: archive sends the value of unarchive
ArchivePayload_False == JsonDumps(List(<<[value |-> FALSE, path |-> "/Archived", op |-> "replace"]>>))

ArchivePayload == JsonDumps(List(<<[value |-> TRUE, path |-> "/Archived", op |-> "replace"]>>))

archive_company_unit_node ==
    \E nodeId \in NodeIds :
        NodeOp("archive", Some(nodeId), "PATCH", Append(NodesUri, nodeId), ArchivePayload, EmptyDict)

UnarchivePayload == JsonDumps(List(<<[value |-> FALSE, path |-> "/Archived", op |-> "replace"]>>))

unarchive_company_unit_node ==
    \E nodeId \in NodeIds :
        NodeOp("unarchive", Some(nodeId), "PATCH", Append(NodesUri, nodeId), UnarchivePayload, EmptyDict)

\* the cache's clock: one tick of the entry's time to live; the entry is
\* evicted when it has none left
Tick ==
    /\ cache # None
    /\ cache[1].ttl # None
    /\ IF cache[1].ttl[1] > 1
       THEN /\ cache' = Some([cache[1] EXCEPT !.ttl = Some(@[1] - 1)])
            /\ UNCHANGED expired
       ELSE /\ cache' = None
            /\ expired' = TRUE
    /\ UNCHANGED <<archived, last, callerVars, helperVars>>

Next ==
    \/ CallGetAccessToken
    \/ insert_root_companyunit_node
    \/ insert_company_unit_division_node
    \/ insert_company_unit_site_node
    \/ get_root_companyunit_node
    \/ get_company_unit_node
    \/ get_divisions_company_unit_nodes
    \/ get_sites_company_unit_nodes
    \/ get_company_unit_nodes
    \/ archive_company_unit_node
    \/ unarchive_company_unit_node
    \/ Tick

Spec == Init /\ [][Next]_vars

(***************************************************************************)
(* Two callers inside get_access_token at the same time.  The cache's get  *)
(* and set are each atomic; nothing guards the sequence of the two.        *)
(***************************************************************************)
InitCallers ==
    /\ cache = None
    /\ archived = [n \in NodeIds |-> FALSE]
    /\ expired = FALSE
    /\ last = NoCall
    /\ pc = [c \in Callers |-> "get"]
    /\ issued = [c \in Callers |-> None]
    /\ result = [c \in Callers |-> None]
    /\ envelope = EmptyDict
    /\ helper = "none"
    /\ extracted = None

\* token = cache.get("access_token"); if token: return token
CacheLookup(c) ==
    /\ pc[c] = "get"
    /\ LET token == CacheGet(cache) IN
       IF Truthy(token)
       THEN /\ result' = [result EXCEPT ![c] = Some(Return(token))]
            /\ pc' = [pc EXCEPT ![c] = "done"]
       ELSE /\ pc' = [pc EXCEPT ![c] = "post"]
            /\ UNCHANGED result
    /\ UNCHANGED <<cache, archived, expired, last, issued, helperVars>>

\* response = requests.post(url, data=data); response.raise_for_status()
AuthPost(c) ==
    /\ pc[c] = "post"
    /\ \E resp \in AuthResponses :
        /\ issued' = [issued EXCEPT ![c] = Some(resp)]
        /\ IF RaisesForStatus(resp.status)
           THEN /\ result' = [result EXCEPT ![c] = Some(HTTPError(resp.status))]
                /\ pc' = [pc EXCEPT ![c] = "done"]
           ELSE /\ pc' = [pc EXCEPT ![c] = "set"]
                /\ UNCHANGED result
    /\ UNCHANGED <<cache, archived, expired, last, helperVars>>

\* if response.ok: ... cache.set(...); return f"{token_type} {access_token}"
CacheStore(c) ==
    /\ pc[c] = "set"
    /\ LET resp == issued[c][1] IN
       IF Ok(resp.status)
       THEN LET token_type == DictGet(resp.body, "token_type")
                access_token == DictGet(resp.body, "access_token")
                expiry == DictGet(resp.body, "expires_in")
            IN /\ cache' = CacheSet(cache, FormatToken(token_type, access_token), expiry)
               /\ result' = [result EXCEPT ![c] = Some(Return(Some(FormatToken(token_type, access_token))))]
       ELSE /\ result' = [result EXCEPT ![c] = Some(Return(None))]
            /\ UNCHANGED cache
    /\ pc' = [pc EXCEPT ![c] = "done"]
    /\ UNCHANGED <<archived, expired, last, issued, helperVars>>

NextCallers ==
    \/ \E c \in Callers : CacheLookup(c)
    \/ \E c \in Callers : AuthPost(c)
    \/ \E c \in Callers : CacheStore(c)
    \/ Tick

SpecCallers == InitCallers /\ [][NextCallers]_vars

(***************************************************************************)
(* The response extraction helpers, applied to an envelope.                *)
(***************************************************************************)
KeyError(k) == [kind |-> "raise", error |-> "KeyError", key |-> k]
IndexError == [kind |-> "raise", error |-> "IndexError"]

\* what a helper returns: a node record or None, an Id or None, a list of
\* node records
ReturnNode(o) == [kind |-> "return", node |-> o]
ReturnId(o) == [kind |-> "return", id |-> o]
ReturnNodes(l) == [kind |-> "return", nodes |-> l]

\* d[k] on a dict: the value, or KeyError
Subscript(d, k) == IF k \in DOMAIN d THEN Return(d[k]) ELSE KeyError(k)
\* l[0] on a list: the first element, or IndexError
First(l) == IF Len(l) >= 1 THEN Return(l[1]) ELSE IndexError

\* try: return json_payload["value"][0]  except KeyError: print(...)
GetRootValue(json_payload) ==
    LET value == Subscript(json_payload, "value") IN
    IF value.kind = "raise" THEN ReturnNode(None)
    ELSE LET first == First(value.value) IN
         IF first.kind = "raise" THEN first ELSE ReturnNode(Some(first.value))

\* try: return json_payload["value"][0]["Id"]  except KeyError: print(...)
GetRootId(json_payload) ==
    LET value == Subscript(json_payload, "value") IN
    IF value.kind = "raise" THEN ReturnId(None)
    ELSE LET first == First(value.value) IN
         IF first.kind = "raise" THEN first
         ELSE LET id == Subscript(first.value, "Id") IN
              IF id.kind = "raise" THEN ReturnId(None) ELSE ReturnId(Some(id.value))

\* return [val for val in json_payload["value"]]
GetAllNodeValues(json_payload) ==
    LET value == Subscript(json_payload, "value") IN
    IF value.kind = "raise" THEN value
    ELSE ReturnNodes([i \in 1..Len(value.value) |-> value.value[i]])

\* node records of an envelope: with an Id, or without
NodeRecords == {("Id" :> id) : id \in NodeIds} \cup {EmptyDict}
Lists == UNION {[1..n -> NodeRecords] : n \in 0..MaxLen}
Envelopes == {EmptyDict} \cup {("value" :> l) : l \in Lists}

InitHelpers ==
    /\ cache = None
    /\ archived = [n \in NodeIds |-> FALSE]
    /\ expired = FALSE
    /\ last = NoCall
    /\ pc = [c \in Callers |-> "idle"]
    /\ issued = [c \in Callers |-> None]
    /\ result = [c \in Callers |-> None]
    /\ envelope \in Envelopes
    /\ helper = "none"
    /\ extracted = None

Apply(name, outcome) ==
    /\ helper = "none"
    /\ helper' = name
    /\ extracted' = Some(outcome)
    /\ UNCHANGED <<cache, archived, expired, last, callerVars, envelope>>

_get_root_value == Apply("_get_root_value", GetRootValue(envelope))
_get_root_id == Apply("_get_root_id", GetRootId(envelope))
_get_all_node_values == Apply("_get_all_node_values", GetAllNodeValues(envelope))

NextHelpers ==
    \/ _get_root_value
    \/ _get_root_id
    \/ _get_all_node_values

SpecHelpers == InitHelpers /\ [][NextHelpers]_vars

(***************************************************************************)
(* Properties.                                                             *)
(***************************************************************************)
NodeOps == {"insert_root", "insert_division", "insert_site", "get_root", "get_node",
            "get_divisions", "get_sites", "get_nodes", "archive", "unarchive"}

IsCall(l) == l.op # "none"
\* the call made a POST that the authentication endpoint answered successfully
MissSucceeded(l) == IsCall(l) /\ l.auth.issued # None /\ l.auth.issued[1].status = 200
\* the call made a POST that the authentication endpoint answered with a failure
MissFailed(l) == IsCall(l) /\ l.auth.issued # None /\ l.auth.issued[1].status >= 400
\* a step that is a call, taken while the cache holds a token (a tick changes
\* the cache and a hit never does)
CallOnHit == cache # None /\ cache' = cache

\* C1: after a call that found the cache empty and authenticated successfully
\* (one POST), a following call made before the entry's ttl runs out makes no
\* POST and returns the value the first call returned.
C1_TokenCachedOnce ==
    [][(MissSucceeded(last) /\ CallOnHit)
         => /\ last.auth.posts = 1
            /\ last'.auth.posts = 0
            /\ last'.auth.issued = None
            /\ last'.auth.outcome = last.auth.outcome
            /\ last'.auth.outcome.kind = "return"]_vars

C1_Witness ==
    /\ last.op = "get_access_token"
    /\ ~last.expiredBefore
    /\ last.auth.posts = 0
    /\ cache # None
    /\ last.auth.outcome = Return(Some(cache[1].val))

FullBody(b) == DOMAIN b = {"token_type", "access_token", "expires_in"}

\* C2: once the cache has evicted the token at the end of its ttl, the next
\* call makes a new POST and, when that succeeds, leaves in the cache the
\* newly issued "{token_type} {access_token}" with ttl the new expires_in.
C2_ReauthAfterExpiry ==
    [][(expired /\ ~expired')
         => /\ last'.auth.posts = 1
            /\ last'.auth.issued # None
            /\ last'.auth.issued[1].status = 200 =>
                 LET b == last'.auth.issued[1].body IN
                 /\ last'.auth.outcome.kind = "return"
                 /\ cache' # None
                 /\ Some(cache'[1].val) = last'.auth.outcome.value
                 /\ cache'[1].ttl = DictGet(b, "expires_in")
                 /\ FullBody(b) => /\ cache'[1].val = b.token_type \o " " \o b.access_token
                                   /\ cache'[1].ttl = Some(b.expires_in)]_vars

C2_Witness ==
    /\ IsCall(last)
    /\ last.expiredBefore
    /\ MissSucceeded(last)
    /\ FullBody(last.auth.issued[1].body)
    /\ cache = Some([val |-> "Bearer b", ttl |-> Some(MaxTTL)])

\* C3: a node operation whose request the hierarchy service answers with a
\* failure status raises an HTTP error carrying that status, and made
\* exactly one hierarchy request.
C3_FailurePropagates ==
    (last.op \in NodeOps /\ Len(last.answers) >= 1 /\ last.answers[1] >= 400)
      => /\ last.outcome = [kind |-> "raise", error |-> "HTTPError", status |-> last.answers[1]]
         /\ Len(last.reqs) = 1
         /\ Len(last.answers) = 1

C3_Witness ==
    /\ last.op = "archive"
    /\ last.answers = <<401>>
    /\ last.outcome.kind = "raise"
    /\ last.outcome.status = 401

\* C4: with no token cached, a failure status from the authentication
\* endpoint makes get_access_token raise to the caller after exactly one
\* POST, and the cache stays empty.
C4_AuthFailureRaises ==
    MissFailed(last)
      => /\ last.auth.outcome = [kind |-> "raise", error |-> "HTTPError",
                                 status |-> last.auth.issued[1].status]
         /\ last.outcome = last.auth.outcome
         /\ last.auth.posts = 1
         /\ last.reqs = <<>>
         /\ cache = None

C4_Witness ==
    /\ last.op = "get_access_token"
    /\ MissFailed(last)
    /\ last.outcome.kind = "raise"
    /\ last.outcome.status = 401
    /\ cache = None

\* C5: a successful authentication response whose body lacks token_type,
\* access_token or expires_in makes get_access_token return an absent
\* value, without raising.
C5_AbsentOnMissingField ==
    (MissSucceeded(last) /\ ~FullBody(last.auth.issued[1].body))
      => last.auth.outcome = Return(None)

\* C7: archive and unarchive each send one PATCH to /nodes/{id} whose body
\* is the single operation replace /Archived with true (archive) or false
\* (unarchive); when the service applies it the node's flag takes that value,
\* whatever it was, and no other node changes.
ArchiveRequestOk(l) ==
    LET id == l.arg[1]
        v == (l.op = "archive")
    IN /\ Len(l.reqs) = 1
       /\ l.reqs[1].method = "PATCH"
       /\ l.reqs[1].url.path = <<"v1", "organisation", ORG_ID, "hierarchy", HIERARCHY_TYPE, "nodes", id>>
       /\ l.reqs[1].data = [json |-> [list |-> <<[value |-> v, path |-> "/Archived", op |-> "replace"]>>]]

C7_ArchiveIdempotent ==
    /\ [](last.op \in {"archive", "unarchive"} =>
            /\ last.auth.outcome.kind = "return" => ArchiveRequestOk(last)
            /\ last.outcome.kind = "return" => archived[last.arg[1]] = (last.op = "archive"))
    /\ [][last'.op \in {"archive", "unarchive"} =>
            \A n \in NodeIds : n # last'.arg[1] => archived'[n] = archived[n]]_vars

C7_Witness ==
    /\ last.op = "unarchive"
    /\ last.outcome.kind = "return"
    /\ ArchiveRequestOk(last)
    /\ \E n \in NodeIds : n # last.arg[1] /\ archived[n] /\ ~archived[last.arg[1]]

\* the spelling of the names the client sends
Spellings == {<<"E", "d", "i", "n", "b", "u", "r", "g", "h">>,
              <<"E", "d", "i", "n", "b", "u", "r", "g", "h", " ", "O", "f", "f", "i", "c", "e">>}
RECURSIVE Join(_)
Join(cs) == IF cs = <<>> THEN "" ELSE Head(cs) \o Join(Tail(cs))
Spell(name) == CHOOSE cs \in Spellings : Join(cs) = name
LowerHyphen(ch) == CASE ch = "E" -> "e" [] ch = "O" -> "o" [] ch = " " -> "-" [] OTHER -> ch
\* the lower-cased, hyphen-joined form of a name
ShortCodeOf(name) == LET cs == Spell(name) IN Join([i \in 1..Len(cs) |-> LowerHyphen(cs[i])])

\* C8: insert-division and insert-site PUT to /nodes/{shortCode} where
\* shortCode is the lower-cased, hyphen-joined name of the payload, and the
\* payload has the matching nodeType, archived = false and both parent fields.
C8_ShortCodeFromName ==
    (last.op \in {"insert_division", "insert_site"} /\ Len(last.reqs) = 1)
      => LET rq == last.reqs[1]
             node == rq.data.json.dict
         IN /\ rq.method = "PUT"
            /\ rq.url.path = <<"v1", "organisation", ORG_ID, "hierarchy", HIERARCHY_TYPE, "nodes",
                               ShortCodeOf(node.name)>>
            /\ node.nodeType = (IF last.op = "insert_division" THEN "division" ELSE "site")
            /\ node.archived = FALSE
            /\ {"parentShortCode", "parentId"} \subseteq DOMAIN node

\* C9: a hierarchy request carries as Authorization the value that
\* get_access_token returned in the same call (the cached token on a hit,
\* the one just issued on a miss); when get_access_token raises, no
\* hierarchy request is made.
C9_TokenBeforeRequest ==
    last.op \in NodeOps
      => /\ last.auth.outcome.kind = "raise" => (last.reqs = <<>> /\ last.outcome = last.auth.outcome)
         /\ last.auth.outcome.kind = "return" =>
              /\ Len(last.reqs) = 1
              /\ last.reqs[1].headers.Authorization = last.auth.outcome.value
              /\ last.auth.outcome.value # None
              /\ last.auth.cache # None
              /\ last.auth.outcome.value = Some(last.auth.cache[1].val)
              /\ last.auth.posts = 1 =>
                   /\ last.auth.issued[1].status = 200
                   /\ LET b == last.auth.issued[1].body IN
                      FullBody(b) => last.reqs[1].headers.Authorization
                                        = Some(b.token_type \o " " \o b.access_token)

C9_Witness ==
    /\ last.op = "get_divisions"
    /\ last.auth.posts = 0
    /\ Len(last.reqs) = 1
    /\ last.reqs[1].headers.Authorization = Some("Bearer a")
    /\ last.outcome.kind = "return"

\* C6: when the envelope has no "value" field, or its "value" array has no
\* first element, _get_root_value and _get_root_id return an absent value
\* without raising, and otherwise the first element, respectively its Id;
\* _get_all_node_values raises a structural error when "value" is absent and
\* otherwise returns all the elements in their order.
NoFirst(e) == "value" \notin DOMAIN e \/ Len(e.value) = 0

C6_ExtractionAsymmetry ==
    /\ helper = "_get_root_value" =>
         extracted = Some(IF NoFirst(envelope) THEN [kind |-> "return", node |-> None]
                          ELSE [kind |-> "return", node |-> Some(envelope.value[1])])
    /\ helper = "_get_root_id" =>
         extracted = Some(IF NoFirst(envelope) THEN [kind |-> "return", id |-> None]
                          ELSE IF "Id" \in DOMAIN envelope.value[1]
                               THEN [kind |-> "return", id |-> Some(envelope.value[1].Id)]
                               ELSE [kind |-> "return", id |-> None])
    /\ helper = "_get_all_node_values" =>
         IF "value" \notin DOMAIN envelope
         THEN extracted # None /\ extracted[1].kind = "raise"
         ELSE extracted = Some([kind |-> "return", nodes |-> envelope.value])

\* the token a caller's own POST was issued
IssuedTo(c) == FormatToken(DictGet(issued[c][1].body, "token_type"),
                           DictGet(issued[c][1].body, "access_token"))
Authenticated(c) == issued[c] # None /\ issued[c][1].status = 200

\* C10: two callers that enter get_access_token together on an empty cache
\* can both authenticate; each caller that authenticated returns the token
\* issued to it (a caller that found the cache filled returns the token
\* issued to the other), and once both have finished the cache, unless its
\* ttl ran out, holds one of the issued tokens.
C10_BenignRace ==
    /\ \A c \in Callers :
         (pc[c] = "done" /\ result[c][1].kind = "return") =>
            IF issued[c] # None
            THEN result[c][1].value = Some(IssuedTo(c))
            ELSE \E d \in Callers \ {c} :
                    Authenticated(d) /\ result[c][1].value = Some(IssuedTo(d))
    /\ ((\A c \in Callers : pc[c] = "done") /\ (\E c \in Callers : Authenticated(c)) /\ ~expired)
         => /\ cache # None
            /\ \E c \in Callers : Authenticated(c) /\ cache[1].val = IssuedTo(c)

C10_Witness ==
    /\ \A c \in Callers : pc[c] = "done" /\ Authenticated(c) /\ result[c][1].kind = "return"
    /\ IssuedTo(1) # IssuedTo(2)
    /\ result[1][1].value = Some(IssuedTo(1))
    /\ result[2][1].value = Some(IssuedTo(2))
    /\ cache # None
    /\ cache[1].val = IssuedTo(1)

====
